---- MODULE Spec2Model ----
(***************************************************************************)
(* The RSocket frame codec of src/src/frame/mod.rs (Frame, Body, the       *)
(* header packing, the dispatch over the frame kinds) and of               *)
(* src/rsocket/src/frame/request_fnf.rs (RequestFNF and its builder).      *)
(*                                                                         *)
(* A byte string is a sequence of numbers in 0..255.  Option<Bytes> is a   *)
(* record [some, v].  A result is a record [tag, ...] whose tag is "Ok",   *)
(* "Err" or "Panic".                                                       *)
(***************************************************************************)
EXTENDS Integers, Sequences, FiniteSets, TLC

\* ------------------------------------------------------------------ bounds

\* Longest metadata / data byte string handed to the builder.
MaxLen == 2

\* Longest metadata / data byte string handed to set_all.
MaxAllLen == 1

\* Longest body that follows the 6 header bytes of a received buffer.
MaxTail == 4

\* ------------------------------------------------------- machine arithmetic

RECURSIVE BitAnd(_, _)
BitAnd(a, b) ==
  IF a = 0 \/ b = 0 THEN 0
  ELSE (a % 2) * (b % 2) + 2 * BitAnd(a \div 2, b \div 2)

RECURSIVE BitOr(_, _)
BitOr(a, b) ==
  IF a = 0 THEN b
  ELSE IF b = 0 THEN a
  ELSE (IF a % 2 = 1 \/ b % 2 = 1 THEN 1 ELSE 0) + 2 * BitOr(a \div 2, b \div 2)

\* !x on a u16
BitNot16(a) == 65535 - a

\* x << k on a u16: the bits shifted past bit 15 are dropped
Shl16(a, k) == (a * (2 ^ k)) % 65536

\* x >> k
Shr(a, k) == a \div (2 ^ k)

\* ---------------------------------------------------------------- constants

FLAG_NEXT == Shl16(1, 5)
FLAG_COMPLETE == Shl16(1, 6)
FLAG_FOLLOW == Shl16(1, 7)
FLAG_METADATA == Shl16(1, 8)
FLAG_IGNORE == Shl16(1, 9)

TYPE_SETUP == 1
TYPE_LEASE == 2
TYPE_KEEPALIVE == 3
TYPE_REQUEST_RESPONSE == 4
TYPE_REQUEST_FNF == 5
TYPE_REQUEST_STREAM == 6
TYPE_REQUEST_CHANNEL == 7
TYPE_REQUEST_N == 8
TYPE_CANCEL == 9
TYPE_PAYLOAD == 10
TYPE_ERROR == 11
TYPE_METADATA_PUSH == 12
TYPE_RESUME == 13
TYPE_RESUME_OK == 14

LEN_HEADER == 6

\* ------------------------------------------------------------------- values

None == [some |-> FALSE, v |-> <<>>]
Some(b) == [some |-> TRUE, v |-> b]

\* The variants of enum Body.
BodyKinds ==
  {"Setup", "Lease", "Keepalive", "RequestFNF", "RequestResponse",
   "RequestStream", "RequestChannel", "RequestN", "Cancel", "Payload",
   "Error", "MetadataPush", "Resume", "ResumeOK"}

\* Body::RequestFNF(v)
Body_RequestFNF(v) ==
  [kind |-> "RequestFNF", metadata |-> v.metadata, data |-> v.data, raw |-> <<>>]

\* Body::Cancel()
Body_Cancel == [kind |-> "Cancel", metadata |-> None, data |-> None, raw |-> <<>>]

\* A variant whose struct is not part of the two files: its fields are kept
\* as the bytes of its wire image.
Body_Other(kind, raw) == [kind |-> kind, metadata |-> None, data |-> None, raw |-> raw]

NoBody == [kind |-> "NoBody", metadata |-> None, data |-> None, raw |-> <<>>]

\* Frame::new
Frame_new(stream_id, body, flag) ==
  [stream_id |-> stream_id, body |-> body, flag |-> flag]

NoFrame == Frame_new(0, NoBody, 0)

to_frame_type(body) ==
  CASE body.kind = "Setup" -> TYPE_SETUP
    [] body.kind = "Lease" -> TYPE_LEASE
    [] body.kind = "Keepalive" -> TYPE_KEEPALIVE
    [] body.kind = "RequestResponse" -> TYPE_REQUEST_RESPONSE
    [] body.kind = "RequestFNF" -> TYPE_REQUEST_FNF
    [] body.kind = "RequestStream" -> TYPE_REQUEST_STREAM
    [] body.kind = "RequestChannel" -> TYPE_REQUEST_CHANNEL
    [] body.kind = "RequestN" -> TYPE_REQUEST_N
    [] body.kind = "Cancel" -> TYPE_CANCEL
    [] body.kind = "Payload" -> TYPE_PAYLOAD
    [] body.kind = "Error" -> TYPE_ERROR
    [] body.kind = "MetadataPush" -> TYPE_METADATA_PUSH
    [] body.kind = "Resume" -> TYPE_RESUME
    [] body.kind = "ResumeOK" -> TYPE_RESUME_OK

\* Frame::get_frame_type
get_frame_type(self) == to_frame_type(self.body)

\* Frame::get_flag
get_flag(self) == self.flag

\* Frame::get_stream_id
get_stream_id(self) == self.stream_id

has_next_testing_complete(self) == BitAnd(self.flag, FLAG_COMPLETE) # 0

\* Frame::has_next
has_next(self) == BitAnd(self.flag, FLAG_NEXT) # 0

\* Frame::has_complete
has_complete(self) == BitAnd(self.flag, FLAG_COMPLETE) # 0

\* ------------------------------------------------------- RequestFNFBuilder

\* RequestFNFBuilder::new
RequestFNFBuilder_new(stream_id, flag) ==
  [stream_id |-> stream_id, flag |-> flag,
   value |-> [metadata |-> None, data |-> None]]

\* RequestFNF::builder
builder_of(stream_id, flag) == RequestFNFBuilder_new(stream_id, flag)

build_without_flag(self) ==
  Frame_new(self.stream_id, Body_RequestFNF(self.value), 0)

\* RequestFNFBuilder::build
build(self) ==
  Frame_new(self.stream_id, Body_RequestFNF(self.value), self.flag)

\* RequestFNFBuilder::set_metadata
set_metadata(self, metadata) ==
  [self EXCEPT !.value.metadata = Some(metadata),
               !.flag = BitOr(self.flag, FLAG_METADATA)]

\* RequestFNFBuilder::set_data
set_data(self, data) ==
  [self EXCEPT !.value.data = Some(data)]

set_all_keeping_flag(self, d, m) ==
  IF m.some
  THEN [self EXCEPT !.value.data = d,
                    !.value.metadata = Some(m.v),
                    !.flag = BitOr(self.flag, FLAG_METADATA)]
  ELSE [self EXCEPT !.value.data = d,
                    !.value.metadata = None]

\* RequestFNFBuilder::set_all, data_and_metadata = (d, m)
set_all(self, d, m) ==
  IF m.some
  THEN [self EXCEPT !.value.data = d,
                    !.value.metadata = Some(m.v),
                    !.flag = BitOr(self.flag, FLAG_METADATA)]
  ELSE [self EXCEPT !.value.data = d,
                    !.value.metadata = None,
                    !.flag = BitAnd(self.flag, BitNot16(FLAG_METADATA))]

\* RequestFNF::get_metadata, RequestFNF::get_data
get_metadata(self) == self.metadata
get_data(self) == self.data

\* RequestFNF::split
split(self) == <<self.data, self.metadata>>

\* ------------------------------------------------------------ byte buffers

\* BufMut::put_u32_be
put_u32_be(bf, v) ==
  bf \o <<(v \div 16777216) % 256, (v \div 65536) % 256, (v \div 256) % 256, v % 256>>

\* BufMut::put_u16_be
put_u16_be(bf, v) == bf \o <<(v \div 256) % 256, v % 256>>

\* BigEndian::read_u32 on a slice of at least 4 bytes
read_u32(b) == b[1] * 16777216 + b[2] * 65536 + b[3] * 256 + b[4]

\* BigEndian::read_u16 on a slice of at least 2 bytes
read_u16(b) == b[1] * 256 + b[2]

\* BytesMut::advance on a buffer of at least n bytes
advance(b, n) == SubSeq(b, n + 1, Len(b))

\* ------------------------------------------------------------ PayloadSupport
\* utils.rs is not among the source files: the payload codec follows the
\* specification's section 4.2.

\* the 3-byte big-endian length
U24_write(bf, n) == bf \o <<(n \div 65536) % 256, (n \div 256) % 256, n % 256>>
U24_read(bf) == bf[1] * 65536 + bf[2] * 256 + bf[3]

\* PayloadSupport::write
PayloadSupport_write(bf, metadata, data) ==
  LET b1 == IF metadata.some
            THEN U24_write(bf, Len(metadata.v)) \o metadata.v
            ELSE bf
  IN  IF data.some THEN b1 \o data.v ELSE b1

\* PayloadSupport::len
PayloadSupport_len(metadata, data) ==
  (IF metadata.some THEN 3 + Len(metadata.v) ELSE 0)
  + (IF data.some THEN Len(data.v) ELSE 0)

\* the data part: what remains of the buffer, absent when nothing remains
PayloadSupport_rest(bf) == IF bf = <<>> THEN None ELSE Some(bf)

\* PayloadSupport::read.  corrupt: the length field is missing, or declares
\* more bytes than remain.
PayloadSupport_read(flag, bf) ==
  IF BitAnd(flag, FLAG_METADATA) # 0
  THEN IF Len(bf) < 3
       THEN [corrupt |-> TRUE, m |-> None, d |-> None]
       ELSE LET n == U24_read(bf)
                b1 == advance(bf, 3)
            IN  IF Len(b1) < n
                THEN [corrupt |-> TRUE, m |-> None, d |-> None]
                ELSE [corrupt |-> FALSE,
                      m |-> Some(SubSeq(b1, 1, n)),
                      d |-> PayloadSupport_rest(advance(b1, n))]
  ELSE [corrupt |-> FALSE, m |-> None, d |-> PayloadSupport_rest(bf)]

\* The codecs of the variants whose files are not among the sources: each
\* writes its wire image, and its decode either takes the rest of the buffer
\* or refuses it (accept is the decoder's verdict).
Other_write_to(self, bf) == bf \o self.raw
Other_len(self) == Len(self.raw)
Other_decode(kind, flag, bf, accept) ==
  IF accept
  THEN [tag |-> "Ok", body |-> Body_Other(kind, bf), msg |-> ""]
  ELSE [tag |-> "Err", body |-> NoBody, msg |-> "frame corrupt"]

\* ---------------------------------------------------------------- RequestFNF

\* impl Writeable for RequestFNF
RequestFNF_write_to(self, bf) ==
  PayloadSupport_write(bf, get_metadata(self), get_data(self))

RequestFNF_len(self) == PayloadSupport_len(get_metadata(self), get_data(self))

RequestFNF_decode_swapped(flag, bf) ==
  LET r == PayloadSupport_read(flag, bf)
  IN  IF r.corrupt
      THEN [tag |-> "Panic", body |-> NoBody, msg |-> ""]
      ELSE [tag |-> "Ok",
            body |-> Body_RequestFNF([metadata |-> r.d, data |-> r.m]),
            msg |-> ""]

\* RequestFNF::decode.  read hands back a bare pair (m, d), which decode
\* wraps in Ok: there is no error value a failed read could return through,
\* so a failed read ends the call by a panic.
RequestFNF_decode(flag, bf) ==
  LET r == PayloadSupport_read(flag, bf)
  IN  IF r.corrupt
      THEN [tag |-> "Panic", body |-> NoBody, msg |-> ""]
      ELSE [tag |-> "Ok",
            body |-> Body_RequestFNF([metadata |-> r.m, data |-> r.d]),
            msg |-> ""]

\* --------------------------------------------------------------------- Frame

\* the variants with an arm in write_to and in len; the rest meet
\* unimplemented!()
WriteArms ==
  {"Setup", "RequestResponse", "RequestStream", "RequestChannel",
   "RequestFNF", "RequestN", "MetadataPush", "Keepalive", "Payload",
   "Lease", "Error", "Cancel", "ResumeOK"}

\* impl Writeable for Frame: write_to.  [panic, bf]: bf is the buffer when
\* the call ends.
Frame_write_to(self, bf) ==
  LET b1 == put_u32_be(bf, self.stream_id)
      b2 == put_u16_be(b1, BitOr(Shl16(to_frame_type(self.body), 10), self.flag))
  IN  CASE self.body.kind = "RequestFNF" ->
             [panic |-> FALSE, bf |-> RequestFNF_write_to(self.body, b2)]
        [] self.body.kind = "Cancel" -> [panic |-> FALSE, bf |-> b2]
        [] self.body.kind \in WriteArms \ {"RequestFNF", "Cancel"} ->
             [panic |-> FALSE, bf |-> Other_write_to(self.body, b2)]
        [] OTHER -> [panic |-> TRUE, bf |-> b2]

Frame_len_short_header(self) ==
  CASE self.body.kind = "RequestFNF" ->
         [panic |-> FALSE, n |-> 4 + RequestFNF_len(self.body)]
    [] self.body.kind = "Cancel" -> [panic |-> FALSE, n |-> 4 + 0]
    [] self.body.kind \in WriteArms \ {"RequestFNF", "Cancel"} ->
         [panic |-> FALSE, n |-> 4 + Other_len(self.body)]
    [] OTHER -> [panic |-> TRUE, n |-> 0]

\* impl Writeable for Frame: len.  [panic, n]
Frame_len(self) ==
  CASE self.body.kind = "RequestFNF" ->
         [panic |-> FALSE, n |-> LEN_HEADER + RequestFNF_len(self.body)]
    [] self.body.kind = "Cancel" -> [panic |-> FALSE, n |-> LEN_HEADER + 0]
    [] self.body.kind \in WriteArms \ {"RequestFNF", "Cancel"} ->
         [panic |-> FALSE, n |-> LEN_HEADER + Other_len(self.body)]
    [] OTHER -> [panic |-> TRUE, n |-> 0]

Panicked == [tag |-> "Panic", frame |-> NoFrame, msg |-> ""]

\* Frame::decode.  The size of b is not checked: read_u32 and read_u16 panic
\* on a slice that is too short.
Frame_decode(b, accept) ==
  IF Len(b) < 4 THEN Panicked
  ELSE
  LET sid == read_u32(b)
      b1 == advance(b, 4)
  IN  IF Len(b1) < 2 THEN Panicked
      ELSE
      LET n == read_u16(b1)
          b2 == advance(b1, 2)
          flag == BitAnd(n, 1023)
          kind == Shr(BitAnd(n, 64512), 10)
          body ==
            CASE kind = TYPE_SETUP -> Other_decode("Setup", flag, b2, accept)
              [] kind = TYPE_REQUEST_RESPONSE ->
                   Other_decode("RequestResponse", flag, b2, accept)
              [] kind = TYPE_REQUEST_STREAM ->
                   Other_decode("RequestStream", flag, b2, accept)
              [] kind = TYPE_REQUEST_CHANNEL ->
                   Other_decode("RequestChannel", flag, b2, accept)
              [] kind = TYPE_REQUEST_FNF -> RequestFNF_decode(flag, b2)
              [] kind = TYPE_REQUEST_N -> Other_decode("RequestN", flag, b2, accept)
              [] kind = TYPE_METADATA_PUSH ->
                   Other_decode("MetadataPush", flag, b2, accept)
              [] kind = TYPE_KEEPALIVE -> Other_decode("Keepalive", flag, b2, accept)
              [] kind = TYPE_PAYLOAD -> Other_decode("Payload", flag, b2, accept)
              [] kind = TYPE_LEASE -> Other_decode("Lease", flag, b2, accept)
              [] kind = TYPE_CANCEL ->
                   [tag |-> "Ok", body |-> Body_Cancel, msg |-> ""]
              [] kind = TYPE_ERROR -> Other_decode("Error", flag, b2, accept)
              [] kind = TYPE_RESUME_OK -> Other_decode("ResumeOK", flag, b2, accept)
              [] OTHER ->
                   [tag |-> "Err", body |-> NoBody, msg |-> "illegal frame type"]
      IN  IF body.tag = "Ok"
          THEN [tag |-> "Ok", frame |-> Frame_new(sid, body.body, flag), msg |-> ""]
          ELSE [tag |-> body.tag, frame |-> NoFrame, msg |-> body.msg]

\* ------------------------------------------------------------------- inputs

\* Stream ids handed to the builder and to Frame::new, and found in received
\* headers (TLC's integers are 32-bit, so ids stay below 2^31).
StreamIds == {7, 2147483647}

\* Flag values: every combination of a high byte (bits 8 METADATA, 9 IGNORE,
\* 10 and 15 of the type field) and a low byte (bits 0..7).
FlagHi == {0, 1, 2, 3, 4, 128}
FlagLo == {0, 33, 255}
Flags == {hi * 256 + lo : hi \in FlagHi, lo \in FlagLo}

SeqsUpTo(S, k) == UNION {[1..i -> S] : i \in 0..k}

ByteAlphabet == {0, 109}
\* the arguments of set_metadata and of set_data
BytesVals == SeqsUpTo(ByteAlphabet, MaxLen)
\* each half of the argument of set_all
OptBytes == {None} \cup {Some(b) : b \in SeqsUpTo(ByteAlphabet, MaxAllLen)}

\* Wire images of the variants kept as bytes.
OtherRaws == {<<>>, <<1>>}

\* Received buffers: a stream id, every value of the type-and-flags high
\* byte, a few low bytes, and a body over {0, 1} (so that a metadata length
\* of 0, of 1 and of more than what remains all occur); and the truncations
\* of a header.
RawLo == {0, 33, 64, 255}
RawHeads ==
  {put_u32_be(<<>>, sid) \o <<hi, lo>> : sid \in StreamIds, hi \in 0..255, lo \in RawLo}
RawTails == SeqsUpTo({0, 1}, MaxTail)
RawBuffers ==
  {h \o t : h \in RawHeads, t \in RawTails}
  \cup {SubSeq(<<0, 0, 0, 7, 20, 0>>, 1, k) : k \in 0..5}

\* -------------------------------------------------------------------- state

VARIABLES
  pc,           \* "idle", "building", "built", "written", "panicked",
                \* "decoded", "received", "split"
  args,         \* the arguments of RequestFNF::builder
  builder,      \* the RequestFNFBuilder
  last,         \* the last builder call and its arguments
  hadMetadata,  \* whether the metadata field was Some before the last call
  frame,        \* the Frame built
  n,            \* what Frame::len returned
  bf,           \* the buffer Frame::write_to wrote to
  input,        \* the buffer received from the transport
  result,       \* what Frame::decode returned
  out           \* what RequestFNF::split returned

vars == <<pc, args, builder, last, hadMetadata, frame, n, bf, input, result, out>>

NoArgs == [stream_id |-> 0, flag |-> 0]
NoBuilder == RequestFNFBuilder_new(0, 0)
NoLast == [op |-> "none", d |-> None, m |-> None]
NoLen == [done |-> FALSE, panic |-> FALSE, n |-> 0]
NoBuf == [panic |-> FALSE, bf |-> <<>>]
NoResult == [tag |-> "None", frame |-> NoFrame, msg |-> ""]
NoOut == <<None, None>>

Init ==
  /\ pc = "idle"
  /\ args = NoArgs
  /\ builder = NoBuilder
  /\ last = NoLast
  /\ hadMetadata = FALSE
  /\ frame = NoFrame
  /\ n = NoLen
  /\ bf = NoBuf
  /\ input = <<>>
  /\ result = NoResult
  /\ out = NoOut

\* RequestFNF::builder(stream_id, flag)
Builder(stream_id, flag) ==
  /\ pc = "idle"
  /\ pc' = "building"
  /\ args' = [stream_id |-> stream_id, flag |-> flag]
  /\ builder' = builder_of(stream_id, flag)
  /\ last' = [op |-> "builder", d |-> None, m |-> None]
  /\ hadMetadata' = FALSE
  /\ UNCHANGED <<frame, n, bf, input, result, out>>

\* .set_metadata(metadata)
SetMetadata(metadata) ==
  /\ pc = "building"
  /\ builder' = set_metadata(builder, metadata)
  /\ last' = [op |-> "set_metadata", d |-> None, m |-> Some(metadata)]
  /\ hadMetadata' = builder.value.metadata.some
  /\ UNCHANGED <<pc, args, frame, n, bf, input, result, out>>

\* .set_data(data)
SetData(data) ==
  /\ pc = "building"
  /\ builder' = set_data(builder, data)
  /\ last' = [op |-> "set_data", d |-> Some(data), m |-> None]
  /\ hadMetadata' = builder.value.metadata.some
  /\ UNCHANGED <<pc, args, frame, n, bf, input, result, out>>

\* .set_all((d, m))
SetAll(d, m) ==
  /\ pc = "building"
  /\ builder' = set_all(builder, d, m)
  /\ last' = [op |-> "set_all", d |-> d, m |-> m]
  /\ hadMetadata' = builder.value.metadata.some
  /\ UNCHANGED <<pc, args, frame, n, bf, input, result, out>>

\* .build(): the builder is moved into the frame
Build ==
  /\ pc = "building"
  /\ pc' = "built"
  /\ frame' = build(builder)
  /\ builder' = NoBuilder
  /\ last' = NoLast
  /\ hadMetadata' = FALSE
  /\ UNCHANGED <<args, n, bf, input, result, out>>

\* Frame::new(stream_id, body, flag) with a body of another variant
NewFrame(stream_id, kind, raw, flag) ==
  /\ pc = "idle"
  /\ pc' = "built"
  /\ frame' = Frame_new(stream_id,
                        IF kind = "Cancel" THEN Body_Cancel ELSE Body_Other(kind, raw),
                        flag)
  /\ UNCHANGED <<args, builder, last, hadMetadata, n, bf, input, result, out>>

\* frame.len()
FrameLen ==
  /\ pc \in {"built", "written"}
  /\ ~n.done
  /\ LET r == Frame_len(frame)
     IN  /\ n' = [done |-> TRUE, panic |-> r.panic, n |-> r.n]
         /\ pc' = IF r.panic THEN "panicked" ELSE pc
  /\ UNCHANGED <<args, builder, last, hadMetadata, frame, bf, input, result, out>>

\* frame.write_to(&mut bf) on an empty buffer
WriteTo ==
  /\ pc = "built"
  /\ LET r == Frame_write_to(frame, <<>>)
     IN  /\ bf' = r
         /\ pc' = IF r.panic THEN "panicked" ELSE "written"
  /\ UNCHANGED <<args, builder, last, hadMetadata, frame, n, input, result, out>>

\* Frame::decode on the bytes write_to produced
Decode(accept) ==
  /\ pc = "written"
  /\ pc' = "decoded"
  /\ result' = Frame_decode(bf.bf, accept)
  /\ n' = NoLen
  /\ args' = NoArgs
  /\ UNCHANGED <<builder, last, hadMetadata, frame, bf, input, out>>

\* Frame::decode on a buffer from the transport
Receive(b, accept) ==
  /\ pc = "idle"
  /\ pc' = "received"
  /\ input' = b
  /\ result' = Frame_decode(b, accept)
  /\ UNCHANGED <<args, builder, last, hadMetadata, frame, n, bf, out>>

\* RequestFNF::split on the body of a built frame
Split ==
  /\ pc = "built"
  /\ frame.body.kind = "RequestFNF"
  /\ pc' = "split"
  /\ out' = split(frame.body)
  /\ n' = NoLen
  /\ UNCHANGED <<args, builder, last, hadMetadata, frame, bf, input, result>>

Next ==
  \/ /\ pc = "idle"
     /\ \E stream_id \in StreamIds, flag \in Flags : Builder(stream_id, flag)
  \/ /\ pc = "building"
     /\ \E metadata \in BytesVals : SetMetadata(metadata)
  \/ /\ pc = "building"
     /\ \E data \in BytesVals : SetData(data)
  \/ /\ pc = "building"
     /\ \E d \in OptBytes, m \in OptBytes : SetAll(d, m)
  \/ Build
  \/ /\ pc = "idle"
     /\ \E stream_id \in StreamIds, kind \in BodyKinds \ {"RequestFNF"},
           raw \in OtherRaws, flag \in Flags : NewFrame(stream_id, kind, raw, flag)
  \/ FrameLen
  \/ WriteTo
  \/ /\ pc = "written"
     /\ \E accept \in BOOLEAN : Decode(accept)
  \/ /\ pc = "idle"
     /\ \E b \in RawBuffers, accept \in BOOLEAN : Receive(b, accept)
  \/ Split

Spec == Init /\ [][Next]_vars

\* ------------------------------------------------------------- properties

\* bit i of x, by division
Bit(x, i) == (x \div (2 ^ i)) % 2 = 1

\* x without its bit 8 (METADATA)
ClearMeta(x) == IF Bit(x, 8) THEN x - 256 ELSE x

Ok(f) == [tag |-> "Ok", frame |-> f, msg |-> ""]

\* the 16-bit word and the stream id of a buffer's header
WordOf(b) == b[5] * 256 + b[6]
StreamIdOf(b) == ((b[1] * 256 + b[2]) * 256 + b[3]) * 256 + b[4]

\* A frame of a kind the two files encode in full, with a 10-bit flag whose
\* METADATA bit agrees with the metadata field, has been written and decoded.
RoundTripCase ==
  /\ pc = "decoded"
  /\ frame.body.kind \in {"RequestFNF", "Cancel"}
  /\ frame.flag \in 0..1023
  /\ Bit(frame.flag, 8) <=> frame.body.metadata.some

\* C1, as stated: decode(write_to(frame)) is Ok(frame) for every RequestFNF
\* built through the builder and every Cancel, the empty byte strings
\* included.
C1_RoundTripAsStated == RoundTripCase => result = Ok(frame)

\* C1, amended: decode(write_to(frame)) is Ok(frame), with the same
\* stream_id, flag and body, provided the data is absent or not empty.
C1_RoundTrip ==
  (RoundTripCase /\ ~(frame.body.data.some /\ frame.body.data.v = <<>>))
    => result = Ok(frame)

C1_Witness ==
  /\ RoundTripCase
  /\ frame.body.kind = "RequestFNF"
  /\ frame.body.metadata = Some(<<>>)
  /\ frame.body.data.some
  /\ Len(frame.body.data.v) = 2
  /\ frame.flag # 256
  /\ result = Ok(frame)

\* C2: the word write_to puts at bytes [4..6) is
\* (frame_type_code(body) << 10) | (flag & 0x03FF) for every 16-bit flag, so
\* its top 6 bits are the type code of the body.
C2_HeaderWord ==
  pc = "written" =>
    /\ WordOf(bf.bf) = to_frame_type(frame.body) * 1024 + (frame.flag % 1024)
    /\ WordOf(bf.bf) \div 1024 = to_frame_type(frame.body)

\* C3: at every point of the builder's life, and in the frame build()
\* returns, the flag has FLAG_METADATA exactly when the metadata field is
\* Some, whatever flag the builder was started with.
C3_MetadataFlagConsistent ==
  /\ pc = "building" => (Bit(builder.flag, 8) <=> builder.value.metadata.some)
  /\ (pc \in {"built", "split"} /\ frame.body.kind = "RequestFNF")
       => (Bit(frame.flag, 8) <=> frame.body.metadata.some)

\* C4: Frame::decode ends, for every buffer, by returning a Frame or an
\* error value; it never panics.
C4_DecodeTotal == pc = "received" => result.tag \in {"Ok", "Err"}

\* C5: on a buffer of at least 6 bytes, Frame::decode returns the error
\* "illegal frame type" exactly when the type code is none of 0x01..0x0E.
C5_IllegalTypeIffUnknown ==
  (pc = "received" /\ Len(input) >= 6) =>
    ((result.tag = "Err" /\ result.msg = "illegal frame type")
       <=> (WordOf(input) \div 1024) \notin 1..14)

\* C6: for each of the 14 variants write_to and len complete normally, and
\* decode has an arm for the variant's type code.
C6_DispatchComplete ==
  /\ ~bf.panic
  /\ ~n.panic
  /\ (pc = "received" /\ Len(input) >= 6 /\ (WordOf(input) \div 1024) \in 1..14)
       => result.msg # "illegal frame type"

\* C7: Frame::len() is 6 + body.len() and is the number of bytes write_to
\* appends; the body of a RequestFNF is 3 + |metadata| (when Some) plus
\* |data| (when Some) bytes, the body of a Cancel is 0 bytes.
C7_LenPredictsEncoding ==
  (pc = "written" /\ n.done) =>
    /\ ~n.panic
    /\ n.n = Len(bf.bf)
    /\ n.n = 6 + (CASE frame.body.kind = "RequestFNF" ->
                         (IF frame.body.metadata.some
                          THEN 3 + Len(frame.body.metadata.v) ELSE 0)
                         + (IF frame.body.data.some
                            THEN Len(frame.body.data.v) ELSE 0)
                    [] frame.body.kind = "Cancel" -> 0
                    [] OTHER -> Len(frame.body.raw))

C7_Witness ==
  /\ pc = "written"
  /\ n.done
  /\ frame.body.kind = "RequestFNF"
  /\ frame.body.metadata.some
  /\ Len(frame.body.metadata.v) = 1
  /\ frame.body.data.some
  /\ Len(frame.body.data.v) = 2
  /\ n.n = 12

\* C8: a Frame decoded from a buffer of at least 6 bytes has the big-endian
\* value of bytes [0..4) as stream_id, word & 0x03FF as flag and word >> 10
\* as frame type, word being the big-endian value of bytes [4..6); has_next
\* and has_complete tell bits 5 and 6 of the flag.
C8_HeaderDecoding ==
  (pc = "received" /\ Len(input) >= 6 /\ result.tag = "Ok") =>
    LET word == WordOf(input)
        f == result.frame
    IN  /\ get_stream_id(f) = StreamIdOf(input)
        /\ get_flag(f) = word % 1024
        /\ get_flag(f) \in 0..1023
        /\ get_flag(f) % 32 = word % 32
        /\ get_frame_type(f) = word \div 1024
        /\ has_next(f) <=> Bit(word, 5)
        /\ has_complete(f) <=> Bit(word, 6)

C8_Witness ==
  /\ pc = "received"
  /\ Len(input) >= 6
  /\ result.tag = "Ok"
  /\ get_stream_id(result.frame) = 2147483647
  /\ get_flag(result.frame) = 545
  /\ has_next(result.frame)
  /\ ~has_complete(result.frame)
  /\ get_frame_type(result.frame) = 9

\* C9: after set_all((d, m)) the data field is d, the metadata field is m,
\* and FLAG_METADATA is set when m is Some and clear when m is None,
\* whatever the builder held before.
C9_SetAllOverwrites ==
  (pc = "building" /\ last.op = "set_all") =>
    /\ builder.value.data = last.d
    /\ builder.value.metadata = last.m
    /\ Bit(builder.flag, 8) <=> last.m.some

C9_Witness ==
  /\ pc = "building"
  /\ last.op = "set_all"
  /\ hadMetadata
  /\ ~last.m.some
  /\ last.d = Some(<<>>)
  /\ ~builder.value.metadata.some
  /\ ~Bit(builder.flag, 8)

\* C10: the builder keeps the stream_id and every flag bit but FLAG_METADATA
\* as passed to builder(); set_data changes the data field only;
\* set_metadata changes the metadata field and the FLAG_METADATA bit only;
\* build() returns the Frame of the builder's stream_id, flag and fields;
\* split() returns (data, metadata).
C10_BuilderFrameCondition ==
  [][/\ pc' = "building" =>
          /\ builder'.stream_id = args'.stream_id
          /\ ClearMeta(builder'.flag) = ClearMeta(args'.flag)
     /\ (pc = "building" /\ pc' = "building" /\ last'.op = "set_data") =>
          /\ builder'.value.data = last'.d
          /\ builder'.value.metadata = builder.value.metadata
          /\ builder'.flag = builder.flag
          /\ builder'.stream_id = builder.stream_id
     /\ (pc = "building" /\ pc' = "building" /\ last'.op = "set_metadata") =>
          /\ builder'.value.metadata = last'.m
          /\ builder'.value.data = builder.value.data
          /\ Bit(builder'.flag, 8)
          /\ ClearMeta(builder'.flag) = ClearMeta(builder.flag)
          /\ builder'.stream_id = builder.stream_id
     /\ (pc = "building" /\ pc' = "built") =>
          /\ frame'.stream_id = builder.stream_id
          /\ frame'.flag = builder.flag
          /\ frame'.body.kind = "RequestFNF"
          /\ frame'.body.metadata = builder.value.metadata
          /\ frame'.body.data = builder.value.data
     /\ (pc = "built" /\ pc' = "split") =>
          out' = <<frame.body.data, frame.body.metadata>>
    ]_vars

C10_Witness ==
  /\ pc = "split"
  /\ frame.stream_id = 2147483647
  /\ args.flag = 32801
  /\ frame.flag = 32801 + 256
  /\ out[1] = Some(<<109>>)
  /\ out[2] = Some(<<0, 109>>)

====
